---- MODULE Spec2Model ----
(***************************************************************************)
(* Voice agent variants of the repository.                                 *)
(*                                                                         *)
(*   "relay"  : the streaming relay, src/unnamed/part_004 (one Twilio      *)
(*              media-stream socket per call, one Deepgram live            *)
(*              connection, one streamed chat completion per final         *)
(*              transcript).                                               *)
(*   "openai" : the recorded-audio variant, src/index.js lines 1-167       *)
(*              (/process-recording, /call-status, the process-wide        *)
(*              conversationHistories map).                                *)
(*   "hybrid" : the recorded-audio variant of src/index.js lines 168-406,  *)
(*              which answers with the reply text in a say verb.           *)
(*   "hf"     : the recorded-audio variant of src/unnamed/part_001         *)
(*              (/process-recording and the map, no /call-status).         *)
(*   "aura"   : the recorded-audio variant of src/unnamed/part_002.        *)
(*   "vapi"   : the call starter of src/unnamed/part_003 (/start-call).    *)
(*                                                                         *)
(* One process runs one variant; `variant` is chosen in Init and never     *)
(* changes.  Every action is one run-to-completion block of the JavaScript *)
(* event loop: an event handler up to its first await, or the continuation *)
(* of an async function between two awaits.                                *)
(*                                                                         *)
(* Strings are sequences of one-character strings, so that truthiness,     *)
(* trim() and += are computed as JavaScript computes them.                 *)
(*                                                                         *)
(* The collaborators are modelled from the way the code uses them:         *)
(*   - ws emits 'close' once per socket and no 'message' after it;         *)
(*   - deepgramLive emits 'transcript' only after it was sent audio, emits *)
(*     one 'speak' per speak(content) call, and keeps delivering events    *)
(*     after finish() until its own connection closes;                     *)
(*   - a completion request may reject, and its chunk stream may throw     *)
(*     after any number of chunks.                                         *)
(* clock counts the steps taken, so that every run is finite.              *)
(***************************************************************************)
EXTENDS Integers, Sequences, FiniteSets, TLC

VARIABLES
    variant,              \* which program of the repository is running
    clock,                \* event-loop steps taken so far
    crashed,              \* "none", or the socket whose handler threw an uncaught exception
    \* ---- streaming relay (part_004), one entry per socket
    wsState,              \* "none" | "open" | "closed"  (the socket as its handlers see it)
    streamSid,            \* ws.streamSid ("undefined" until a start frame assigns it)
    lastStart,            \* streamSid carried by the most recent start frame received
    stopSeen,             \* a stop frame was received
    dgState,              \* deepgramLive: "none" | "connecting" | "open" | "finishing" | "closed"
    dgErrored,            \* deepgramLive has emitted 'error'
    handlersOn,           \* TRUE once deepgramLive 'open' registered 'transcript'/'speak'
    dgAudio,              \* media buffers handed to deepgramLive.send
    speakQueue,           \* deepgramLive.speak(content) calls not yet answered by a 'speak' event
    finishCalls,          \* number of deepgramLive.finish() calls
    conversationHistory,  \* the closure variable conversationHistory
    fullAgentResponse,    \* the closure variable fullAgentResponse
    cycles,               \* in-flight invocations of the async 'transcript' handler
    nAccepted,            \* 'transcript' events that passed the guard of line 51
    lateAppend,           \* an assistant turn was pushed after a later segment's request was issued
    orphaned,             \* a generation failure left the history different from before the segment
    mixed,                \* a cycle ended without pushing exactly the text of its own chunks
    interimSeen,          \* a non-empty transcript that was not final has been delivered
    lastSent,             \* the most recent ws.send call (NoSend before the first)
    \* ---- recorded-audio variants (index.js, part_001)
    conversationHistories,  \* the Map: callSid -> reference to a history array, or NoRef
    heap,                 \* the history arrays that are still referenced
    requests,             \* in-flight /process-recording handlers
    nextReq,              \* number of /process-recording requests received
    lastResponse,         \* the most recent TwiML response sent
    statusCalls,          \* /call-status requests handled, per callSid
    recOrphaned,          \* a failed language-model call left its own user turn in the stored history
    \* ---- call starter (part_003)
    credentials,          \* TRUE when VAPI_API_KEY, VAPI_PHONE_NUMBER_ID and YOUR_PHONE_NUMBER are all set
    listening,            \* app.listen has been called
    startCalls,           \* /start-call handlers awaiting axios.post
    startResponse         \* the most recent answer of /start-call

wsVars == <<wsState, streamSid, lastStart, stopSeen>>
dgVars == <<dgState, dgErrored, handlersOn, dgAudio, speakQueue, finishCalls>>
genVars == <<conversationHistory, fullAgentResponse, cycles, nAccepted, lateAppend, orphaned,
             mixed, interimSeen>>
relayVars == <<wsVars, dgVars, genVars, lastSent>>

recVars == <<conversationHistories, heap, requests, nextReq, lastResponse, statusCalls,
             recOrphaned>>

vapiVars == <<credentials, listening, startCalls, startResponse>>

vars == <<variant, clock, crashed, relayVars, recVars, vapiVars>>

----------------------------------------------------------------------------
(* Bounds of the model *)

MaxEvents == 9          \* steps of the event loop (handlers and continuations run)
MaxRequests == 2        \* /process-recording requests
MaxMedia == 2           \* media frames forwarded on one socket
MaxTranscripts == 2     \* accepted transcript segments, all sockets together
MaxChunks == 2          \* chunks of one streamed completion

----------------------------------------------------------------------------
(* Input alphabets *)

Sockets == {"ws1", "ws2"}
CallSids == {"CA1", "CA2"}
StreamSids == {"MZ1", "MZ2"}
Undefined == "undefined"
None == "none"

EmptyStr == << >>
Blank == <<" ", " ", " ">>
\* transcripts delivered by the speech-to-text provider
RelayTranscripts == {EmptyStr, Blank, <<"h", "i">>}
\* chunk.choices[0]?.delta?.content || ""
ChunkContents == {EmptyStr, <<"o", "k">>}
\* transcription.text returned by transcribeAudio
UserTexts == {EmptyStr, Blank, <<"a">>, <<"h", "i">>}
\* chatCompletion.choices[0].message.content
AgentTexts == {<<"o", "k">>}

----------------------------------------------------------------------------
(* JavaScript string helpers *)

\* a string in a boolean context
Truthy(str) == Len(str) > 0

IsSpace(ch) == ch \in {" ", "\t", "\n"}

RECURSIVE TrimStart(_)
TrimStart(str) ==
    IF str = << >> THEN << >>
    ELSE IF IsSpace(Head(str)) THEN TrimStart(Tail(str))
    ELSE str

RECURSIVE TrimEnd(_)
TrimEnd(str) ==
    IF str = << >> THEN << >>
    ELSE IF IsSpace(str[Len(str)]) THEN TrimEnd(SubSeq(str, 1, Len(str) - 1))
    ELSE str

\* String.prototype.trim
Trim(str) == TrimEnd(TrimStart(str))

Sum(f, S) ==
    LET RECURSIVE Go(_)
        Go(T) == IF T = {} THEN 0
                 ELSE LET x == CHOOSE y \in T : TRUE IN f[x] + Go(T \ {x})
    IN Go(S)

Turn(r, c) == [role |-> r, content |-> c]

----------------------------------------------------------------------------
(* Streaming relay: src/unnamed/part_004 *)

RelaySystemTurn == Turn("system", <<"S">>)

\* wss.on('connection'): lines 27-43
Connection(s) ==
    /\ variant = "relay"
    /\ crashed = None
    /\ clock < MaxEvents
    /\ clock' = clock + 1
    /\ UNCHANGED recVars
    /\ wsState[s] = "none"
    /\ wsState' = [wsState EXCEPT ![s] = "open"]
    /\ dgState' = [dgState EXCEPT ![s] = "connecting"]
    /\ conversationHistory' = [conversationHistory EXCEPT ![s] = <<RelaySystemTurn>>]
    /\ fullAgentResponse' = [fullAgentResponse EXCEPT ![s] = EmptyStr]
    /\ UNCHANGED <<variant, crashed, vapiVars, streamSid, lastStart, stopSeen, dgErrored, handlersOn, dgAudio,
                   speakQueue, finishCalls, cycles, nAccepted, lateAppend, orphaned,
                   mixed, interimSeen, lastSent>>

\* deepgramLive.on('open'): lines 45-95, registers the other handlers
DeepgramOpen(s) ==
    /\ variant = "relay"
    /\ crashed = None
    /\ clock < MaxEvents
    /\ clock' = clock + 1
    /\ UNCHANGED recVars
    /\ dgState[s] = "connecting"
    /\ dgState' = [dgState EXCEPT ![s] = "open"]
    /\ handlersOn' = [handlersOn EXCEPT ![s] = TRUE]
    /\ UNCHANGED <<variant, crashed, vapiVars, wsVars, dgErrored, dgAudio, speakQueue, finishCalls,
                   genVars, lastSent>>

\* the adapter delivers events while it is open and while it flushes after finish()
DeepgramDelivers(s) == handlersOn[s] /\ dgState[s] \in {"open", "finishing"}

\* a guard that forgets the is_final flag
TranscriptAcceptedAnyFinality(transcript, is_final) == Truthy(transcript)

\* the guard of line 51
TranscriptAccepted(transcript, is_final) == Truthy(transcript) /\ is_final

\* a fresh invocation of the handler, suspended in `await openai...create`
\* (line 57); `before` is the history as it was when the segment arrived,
\* `produced` the text of the chunks this completion has delivered
NewCycle(s) ==
    [seg |-> nAccepted[s] + 1,
     pc |-> "create",
     chunks |-> 0,
     produced |-> EmptyStr,
     before |-> conversationHistory[s]]

\* deepgramLive.on('transcript'): lines 48-57, up to the first await
OnTranscript(s, transcript, is_final) ==
    /\ variant = "relay"
    /\ crashed = None
    /\ clock < MaxEvents
    /\ clock' = clock + 1
    /\ UNCHANGED recVars
    /\ DeepgramDelivers(s)
    /\ dgAudio[s] > 0
    /\ IF TranscriptAccepted(transcript, is_final)
       THEN /\ Sum(nAccepted, Sockets) < MaxTranscripts
            /\ conversationHistory' =
                 [conversationHistory EXCEPT ![s] = Append(@, Turn("user", transcript))]
            /\ fullAgentResponse' = [fullAgentResponse EXCEPT ![s] = EmptyStr]
            /\ cycles' = [cycles EXCEPT ![s] = @ \cup {NewCycle(s)}]
            /\ nAccepted' = [nAccepted EXCEPT ![s] = @ + 1]
       ELSE UNCHANGED <<conversationHistory, fullAgentResponse, cycles, nAccepted>>
    /\ interimSeen' = [interimSeen EXCEPT ![s] = @ \/ (Truthy(transcript) /\ ~is_final)]
    /\ UNCHANGED <<variant, crashed, vapiVars, wsVars, dgVars, lateAppend, orphaned, mixed, lastSent>>

\* the invocation has left the handler (normally or through the catch of line 76)
Retire(s, c) == cycles' = [cycles EXCEPT ![s] = @ \ {c}]

Advance(s, c, d) == cycles' = [cycles EXCEPT ![s] = (@ \ {c}) \cup {d}]

\* line 57 resolves: the for-await of line 63 starts
CreateResolves(s, c) ==
    /\ variant = "relay"
    /\ crashed = None
    /\ clock < MaxEvents
    /\ clock' = clock + 1
    /\ UNCHANGED recVars
    /\ c \in cycles[s]
    /\ c.pc = "create"
    /\ Advance(s, c, [c EXCEPT !.pc = "stream"])
    /\ UNCHANGED <<variant, crashed, vapiVars, wsVars, dgVars, conversationHistory, fullAgentResponse,
                   nAccepted, lateAppend, orphaned, mixed, interimSeen, lastSent>>

\* the catch block, lines 76-78: the error is logged, nothing else
CatchBlock(s, c) ==
    /\ Retire(s, c)
    /\ orphaned' = [orphaned EXCEPT ![s] = @ \/ (conversationHistory[s] # c.before)]
    /\ UNCHANGED <<conversationHistory, fullAgentResponse, nAccepted, lateAppend, mixed,
                   interimSeen>>

\* line 57 rejects, or the chunk stream of line 63 throws part-way
GenerationThrows(s, c) ==
    /\ variant = "relay"
    /\ crashed = None
    /\ clock < MaxEvents
    /\ clock' = clock + 1
    /\ UNCHANGED recVars
    /\ c \in cycles[s]
    /\ CatchBlock(s, c)
    /\ UNCHANGED <<variant, crashed, vapiVars, wsVars, dgVars, lastSent>>

\* deepgramLive.speak(content), line 66
Speak(s) == speakQueue' = [speakQueue EXCEPT ![s] = @ + 1]

\* one iteration of the for-await, lines 63-69
OnChunk(s, c, content) ==
    /\ variant = "relay"
    /\ crashed = None
    /\ clock < MaxEvents
    /\ clock' = clock + 1
    /\ UNCHANGED recVars
    /\ c \in cycles[s]
    /\ c.pc = "stream"
    /\ c.chunks < MaxChunks
    /\ Advance(s, c, [c EXCEPT !.chunks = @ + 1, !.produced = @ \o content])
    /\ IF Truthy(content)
       THEN /\ Speak(s)
            /\ fullAgentResponse' = [fullAgentResponse EXCEPT ![s] = @ \o content]
       ELSE UNCHANGED <<speakQueue, fullAgentResponse>>
    /\ UNCHANGED <<variant, crashed, vapiVars, wsVars, dgState, dgErrored, handlersOn, dgAudio, finishCalls,
                   conversationHistory, nAccepted, lateAppend, orphaned, mixed,
                   interimSeen, lastSent>>

\* the chunk stream ends: lines 71-74
StreamEnds(s, c) ==
    /\ variant = "relay"
    /\ crashed = None
    /\ clock < MaxEvents
    /\ clock' = clock + 1
    /\ UNCHANGED recVars
    /\ c \in cycles[s]
    /\ c.pc = "stream"
    /\ Retire(s, c)
    /\ IF Truthy(fullAgentResponse[s])
       THEN /\ conversationHistory' =
                 [conversationHistory EXCEPT
                     ![s] = Append(@, Turn("assistant", fullAgentResponse[s]))]
            /\ lateAppend' = [lateAppend EXCEPT ![s] = @ \/ (nAccepted[s] > c.seg)]
       ELSE UNCHANGED <<conversationHistory, lateAppend>>
    /\ mixed' = [mixed EXCEPT ![s] = @ \/ (fullAgentResponse[s] # c.produced)]
    /\ UNCHANGED <<variant, crashed, vapiVars, wsVars, dgVars, fullAgentResponse, nAccepted, orphaned,
                   interimSeen, lastSent>>

\* nothing was sent yet
NoSend == [streamSid |-> Undefined, lastStart |-> Undefined, socket |-> "none"]

\* the frame built in lines 83-89 and handed to ws.send in line 90, with the
\* state of the socket and the last start frame at that moment
MediaMessage(s) ==
    [streamSid |-> streamSid[s], lastStart |-> lastStart[s], socket |-> wsState[s]]

\* deepgramLive.on('speak'): lines 82-91
OnSpeak(s) ==
    /\ variant = "relay"
    /\ crashed = None
    /\ clock < MaxEvents
    /\ clock' = clock + 1
    /\ UNCHANGED recVars
    /\ DeepgramDelivers(s)
    /\ speakQueue[s] > 0
    /\ speakQueue' = [speakQueue EXCEPT ![s] = @ - 1]
    /\ lastSent' = [lastSent EXCEPT ![s] = MediaMessage(s)]
    /\ UNCHANGED <<variant, crashed, vapiVars, wsVars, dgState, dgErrored, handlersOn, dgAudio, finishCalls, genVars>>

\* inbound frames: JSON.parse(message) of line 98 yields one of these
Frames ==
    [event : {"start"}, streamSid : StreamSids]
        \cup [event : {"media", "stop", "connected"}]

\* messages that are no well-formed frame: text that is not JSON, an object
\* without an event kind, a media frame without its media object
NotJSON == [text |-> "garbage"]
NoEvent == [event |-> Undefined]
MediaWithoutPayload == [event |-> "media", media |-> Undefined]
Malformed == {NotJSON, NoEvent, MediaWithoutPayload}

\* JSON.parse(message) of line 98 throws a SyntaxError
ParseThrows(m) == "text" \in DOMAIN m

\* twilioMessage.media.payload of line 106 throws a TypeError
MediaThrows(m) == m.event = "media" /\ "media" \in DOMAIN m /\ m.media = Undefined

\* an exception leaves the handler: nothing catches it, the process ends
HandlerThrows(m) == ParseThrows(m) \/ MediaThrows(m)

\* lines 100-103
StartBranch(s, m) ==
    IF m.event = "start"
    THEN streamSid' = [streamSid EXCEPT ![s] = m.streamSid]
    ELSE UNCHANGED streamSid

\* a relay that holds audio back while a reply is being generated
MediaBranchWhenIdle(s, m) ==
    IF m.event = "media" /\ cycles[s] = {}
    THEN dgAudio' = [dgAudio EXCEPT ![s] = @ + 1]
    ELSE UNCHANGED dgAudio

\* lines 105-107
MediaBranch(s, m) ==
    IF m.event = "media"
    THEN dgAudio' = [dgAudio EXCEPT ![s] = @ + 1]
    ELSE UNCHANGED dgAudio

\* ws.on('message'): lines 97-108
OnMessage(s, m) ==
    /\ variant = "relay"
    /\ crashed = None
    /\ clock < MaxEvents
    /\ clock' = clock + 1
    /\ UNCHANGED recVars
    /\ wsState[s] = "open"
    /\ IF HandlerThrows(m)
       THEN /\ crashed' = s
            /\ UNCHANGED <<streamSid, dgAudio, lastStart, stopSeen>>
       ELSE /\ m.event = "media" => dgAudio[s] < MaxMedia
            /\ StartBranch(s, m)
            /\ MediaBranch(s, m)
            /\ lastStart' = IF m.event = "start"
                            THEN [lastStart EXCEPT ![s] = m.streamSid] ELSE lastStart
            /\ stopSeen' = [stopSeen EXCEPT ![s] = @ \/ (m.event = "stop")]
            /\ UNCHANGED crashed
    /\ UNCHANGED <<variant, vapiVars, wsState, dgState, dgErrored, handlersOn, speakQueue, finishCalls,
                   genVars, lastSent>>

\* deepgramLive.finish(): end-of-stream is signalled, the adapter flushes
Finish(s) ==
    /\ finishCalls' = [finishCalls EXCEPT ![s] = @ + 1]
    /\ dgState' = [dgState EXCEPT
                      ![s] = IF @ \in {"connecting", "open"} THEN "finishing" ELSE @]

\* ws.on('close'): lines 110-113; ws emits 'close' once per socket
OnClose(s) ==
    /\ variant = "relay"
    /\ crashed = None
    /\ clock < MaxEvents
    /\ clock' = clock + 1
    /\ UNCHANGED recVars
    /\ wsState[s] = "open"
    /\ wsState' = [wsState EXCEPT ![s] = "closed"]
    /\ Finish(s)
    /\ UNCHANGED <<variant, crashed, vapiVars, streamSid, lastStart, stopSeen, dgErrored, handlersOn, dgAudio,
                   speakQueue, genVars, lastSent>>

\* deepgramLive.on('error'): line 94, the error is logged and nothing else;
\* the handler exists only once 'open' has registered it
DeepgramError(s) ==
    /\ variant = "relay"
    /\ crashed = None
    /\ clock < MaxEvents
    /\ clock' = clock + 1
    /\ UNCHANGED recVars
    /\ handlersOn[s]
    /\ dgState[s] \in {"open", "finishing"}
    /\ ~dgErrored[s]
    /\ dgErrored' = [dgErrored EXCEPT ![s] = TRUE]
    /\ UNCHANGED <<variant, crashed, vapiVars, wsVars, dgState, handlersOn, dgAudio, speakQueue,
                   finishCalls, genVars, lastSent>>

\* deepgramLive.on('close'): line 93, the connection to the provider is gone
DeepgramClose(s) ==
    /\ variant = "relay"
    /\ crashed = None
    /\ clock < MaxEvents
    /\ clock' = clock + 1
    /\ UNCHANGED recVars
    /\ dgState[s] \in {"open", "finishing"}
    /\ dgState' = [dgState EXCEPT ![s] = "closed"]
    /\ UNCHANGED <<variant, crashed, vapiVars, wsVars, dgErrored, handlersOn, dgAudio, speakQueue, finishCalls,
                   genVars, lastSent>>

RelayNext ==
    \E s \in Sockets :
        \/ Connection(s)
        \/ DeepgramOpen(s)
        \/ \E t \in RelayTranscripts, f \in BOOLEAN : OnTranscript(s, t, f)
        \/ \E c \in cycles[s] : CreateResolves(s, c)
        \/ \E c \in cycles[s] : GenerationThrows(s, c)
        \/ \E c \in cycles[s], content \in ChunkContents : OnChunk(s, c, content)
        \/ \E c \in cycles[s] : StreamEnds(s, c)
        \/ OnSpeak(s)
        \/ \E m \in Frames \cup Malformed : OnMessage(s, m)
        \/ OnClose(s)
        \/ DeepgramError(s)
        \/ DeepgramClose(s)

----------------------------------------------------------------------------
(* Recorded-audio variants: src/index.js lines 1-167 ("openai"),
   src/index.js lines 168-406 ("hybrid"), src/unnamed/part_001 ("hf") and
   src/unnamed/part_002 ("aura").  The programs have the same routes and
   the same shape of getAgentResponse; they differ in the array a new call
   starts with, in what the language-model request carries, in how the
   reply text is taken from the answer, in the guard on the transcript and
   in how the reply is delivered (a synthesized file that is played, or the
   text itself in a say verb).  part_001 has no /call-status. *)

Recorded == {"openai", "hybrid", "hf", "aura"}

\* the programs with a /call-status route
WithCallStatus == {"openai", "hybrid", "aura"}

OpenAISystemTurn == Turn("system", <<"B">>)
HybridSystemTurn == Turn("system", <<"F">>)
AuraSystemTurn == Turn("system", <<"H">>)

\* the array getAgentResponse starts from when the Map has no entry:
\* index.js lines 58-64 and 242-244, part_001 line 51, part_002 lines 67-69
FreshHistory(v) ==
    CASE v = "hf" -> << >>
      [] v = "hybrid" -> <<HybridSystemTurn>>
      [] v = "aura" -> <<AuraSystemTurn>>
      [] OTHER -> <<OpenAISystemTurn>>

\* the turns the language-model request carries: `messages: history` in
\* index.js line 69; in part_001 a prompt built from `text` alone (line 55)
Carried(v, history, text) == IF v = "hf" THEN <<Turn("user", text)>> ELSE history

\* part_001 line 67
NotSure == <<"?">>

\* the reply text taken from the answer: index.js line 75, part_001 line 67
ReplyText(v, generated) ==
    IF v = "hf"
    THEN IF Truthy(Trim(generated)) THEN Trim(generated) ELSE NotSure
    ELSE generated

\* the texts the language model may answer with
Generated(v) == IF v = "hf" THEN AgentTexts \cup {Blank} ELSE AgentTexts

\* references to arrays are positive numbers; NoRef: the Map has no entry
NoRef == 0

\* the contents of the array a Map entry refers to; a stored history is never
\* empty, so the empty sequence stands for "no entry"
Absent == << >>

Stored(c) ==
    IF conversationHistories[c] = NoRef THEN Absent ELSE heap[conversationHistories[c]]

\* arrays referenced by the Map or by the local `history` of a suspended call
Referenced(map, reqs) ==
    ({map[c] : c \in CallSids} \cup {r.history : r \in reqs}) \ {NoRef}

Collect(h, map, reqs) == [a \in Referenced(map, reqs) |-> h[a]]

Respond(r, verbs) ==
    lastResponse' = [req |-> r.id, callSid |-> r.callSid, verbs |-> verbs,
                     appended |-> r.appended]

\* POST /process-recording: lines 134-140, up to `await transcribeAudio`
ProcessRecording(c) ==
    /\ variant \in Recorded
    /\ clock < MaxEvents
    /\ nextReq < MaxRequests
    /\ clock' = clock + 1
    /\ nextReq' = nextReq + 1
    /\ requests' = requests \cup
          {[id |-> nextReq + 1, callSid |-> c, pc |-> "transcribe", history |-> NoRef,
            text |-> EmptyStr, before |-> Absent, carried |-> Absent,
            appended |-> FALSE, torn |-> FALSE]}
    /\ UNCHANGED <<variant, crashed, vapiVars, relayVars, conversationHistories, heap, lastResponse,
                   statusCalls, recOrphaned>>

\* the guard on the transcript: index.js line 141 and part_001 line 131
\* (length > 1), index.js line 365 (trim() is truthy), part_002 line 151
\* (length > 0)
RecordingAccepted(userText) ==
    CASE variant = "hybrid" -> Truthy(Trim(userText))
      [] variant = "aura" -> Truthy(userText) /\ Len(Trim(userText)) > 0
      [] OTHER -> Truthy(userText) /\ Len(Trim(userText)) > 1

\* getAgentResponse, index.js lines 56-67 and part_001 lines 49-57, up to the
\* await of the language-model request:
\* the stored array itself when the Map has one, else a fresh array
EnterGetAgentResponse(r, text) ==
    LET c == r.callSid
        fresh == conversationHistories[c] = NoRef
        arr == IF fresh THEN r.id ELSE conversationHistories[c]
        old == IF fresh THEN FreshHistory(variant) ELSE heap[arr]
        r2 == [r EXCEPT !.pc = "llm", !.history = arr, !.text = text,
                        !.before = Stored(c),
                        !.carried = Carried(variant, Append(old, Turn("user", text)), text)]
        reqs == (requests \ {r}) \cup {r2}
        h == [a \in DOMAIN heap \cup {arr} |->
                 IF a = arr THEN Append(old, Turn("user", text)) ELSE heap[a]]
    IN /\ requests' = reqs
       /\ heap' = Collect(h, conversationHistories, reqs)
       /\ UNCHANGED <<conversationHistories, lastResponse>>

\* transcribeAudio resolves: lines 140-147
TranscribeReturns(r, userText) ==
    /\ variant \in Recorded
    /\ clock < MaxEvents
    /\ clock' = clock + 1
    /\ r \in requests
    /\ r.pc = "transcribe"
    /\ IF RecordingAccepted(userText)
       THEN EnterGetAgentResponse(r, userText)
       ELSE /\ requests' = requests \ {r}
            /\ Respond(r, <<"say:repeat", "record">>)
            /\ UNCHANGED <<conversationHistories, heap>>
    /\ UNCHANGED <<variant, crashed, vapiVars, relayVars, nextReq, statusCalls, recOrphaned>>

\* index.js lines 344-350: the recording has no bytes; the handler answers
\* and returns from inside the try block
EmptyAudio(r) ==
    /\ variant = "hybrid"
    /\ clock < MaxEvents
    /\ clock' = clock + 1
    /\ r \in requests
    /\ r.pc = "transcribe"
    /\ requests' = requests \ {r}
    /\ Respond(r, <<"say:repeat">>)
    /\ UNCHANGED <<variant, crashed, vapiVars, relayVars, conversationHistories, heap, nextReq,
                   statusCalls, recOrphaned>>

\* the catch block of lines 148-151 and the response of lines 152-154
Malfunction(r) ==
    /\ requests' = requests \ {r}
    /\ heap' = Collect(heap, conversationHistories, requests \ {r})
    /\ Respond(r, <<"say:malfunction", "record">>)
    /\ UNCHANGED conversationHistories

\* transcribeAudio rejects
TranscribeThrows(r) ==
    /\ variant \in Recorded
    /\ clock < MaxEvents
    /\ clock' = clock + 1
    /\ r \in requests
    /\ r.pc = "transcribe"
    /\ Malfunction(r)
    /\ UNCHANGED <<variant, crashed, vapiVars, relayVars, nextReq, statusCalls, recOrphaned>>

\* the language-model call of line 67 resolves: lines 75-79, then line 143
\* up to the await inside generateSpeech; in the hybrid program (lines
\* 252-257, 370, 380-390) the reply text goes into a say verb and the
\* response is sent at once
LLMReturns(r, agentText) ==
    /\ variant \in Recorded
    /\ clock < MaxEvents
    /\ clock' = clock + 1
    /\ r \in requests
    /\ r.pc = "llm"
    /\ LET r2 == [r EXCEPT !.pc = "tts", !.appended = TRUE]
           reqs == (requests \ {r}) \cup (IF variant = "hybrid" THEN {} ELSE {r2})
           map == [conversationHistories EXCEPT ![r.callSid] = r.history]
           h == [heap EXCEPT ![r.history] =
                                Append(@, Turn("assistant", ReplyText(variant, agentText)))]
       IN /\ requests' = reqs
          /\ conversationHistories' = map
          /\ heap' = Collect(h, map, reqs)
          /\ IF variant = "hybrid"
             THEN Respond(r2, <<"say:reply", "record">>)
             ELSE UNCHANGED lastResponse
    /\ UNCHANGED <<variant, crashed, vapiVars, relayVars, nextReq, statusCalls, recOrphaned>>

\* the language-model call of line 67 rejects: getAgentResponse throws at
\* line 67 and the handler's catch answers
LLMThrows(r) ==
    /\ variant \in Recorded
    /\ clock < MaxEvents
    /\ clock' = clock + 1
    /\ r \in requests
    /\ r.pc = "llm"
    /\ recOrphaned' =
          [recOrphaned EXCEPT
              ![r.callSid] = @ \/ (/\ r.before # Absent
                                   /\ Stored(r.callSid) =
                                         Append(r.before, Turn("user", r.text)))]
    /\ Malfunction(r)
    /\ UNCHANGED <<variant, crashed, vapiVars, relayVars, nextReq, statusCalls>>

\* generateSpeech resolves: lines 144, 152-154
SpeechReturns(r) ==
    /\ variant \in Recorded
    /\ clock < MaxEvents
    /\ clock' = clock + 1
    /\ r \in requests
    /\ r.pc = "tts"
    /\ requests' = requests \ {r}
    /\ heap' = Collect(heap, conversationHistories, requests \ {r})
    /\ Respond(r, <<"play", "record">>)
    /\ UNCHANGED <<variant, crashed, vapiVars, relayVars, conversationHistories, nextReq,
                   statusCalls, recOrphaned>>

\* generateSpeech rejects (lines 82-106 throw)
SpeechThrows(r) ==
    /\ variant \in Recorded
    /\ clock < MaxEvents
    /\ clock' = clock + 1
    /\ r \in requests
    /\ r.pc = "tts"
    /\ Malfunction(r)
    /\ UNCHANGED <<variant, crashed, vapiVars, relayVars, nextReq, statusCalls, recOrphaned>>

\* a teardown that clears the whole Map instead of one key
MapDeleteClears(map, c) == [d \in CallSids |-> NoRef]

\* Map.prototype.delete: removing an absent key is not an error
MapDelete(map, c) == [map EXCEPT ![c] = NoRef]

\* POST /call-status: lines 157-162
CallStatus(c) ==
    /\ variant \in WithCallStatus
    /\ clock < MaxEvents
    /\ clock' = clock + 1
    /\ conversationHistories' = MapDelete(conversationHistories, c)
    /\ heap' = Collect(heap, MapDelete(conversationHistories, c), requests)
    /\ requests' = {[r EXCEPT !.torn = @ \/ (r.callSid = c)] : r \in requests}
    /\ statusCalls' = [statusCalls EXCEPT ![c] = @ + 1]
    /\ UNCHANGED <<variant, crashed, vapiVars, relayVars, nextReq, lastResponse, recOrphaned>>

RecNext ==
    \/ \E c \in CallSids : ProcessRecording(c)
    \/ \E r \in requests, userText \in UserTexts : TranscribeReturns(r, userText)
    \/ \E r \in requests : EmptyAudio(r)
    \/ \E r \in requests : TranscribeThrows(r)
    \/ \E r \in requests, agentText \in Generated(variant) : LLMReturns(r, agentText)
    \/ \E r \in requests : LLMThrows(r)
    \/ \E r \in requests : SpeechReturns(r)
    \/ \E r \in requests : SpeechThrows(r)
    \/ \E c \in CallSids : CallStatus(c)

RecInit ==
    /\ conversationHistories = [c \in CallSids |-> NoRef]
    /\ heap = << >>
    /\ requests = {}
    /\ nextReq = 0
    /\ lastResponse = [req |-> 0, callSid |-> None, verbs |-> << >>, appended |-> FALSE]
    /\ statusCalls = [c \in CallSids |-> 0]
    /\ recOrphaned = [c \in CallSids |-> FALSE]

----------------------------------------------------------------------------
(* Call starter: src/unnamed/part_003 ("vapi") *)

NoResponse == "none"

\* line 22
MissingCredentials == ~credentials

\* app.listen: lines 73-75; the environment is read in lines 8-10 and not
\* looked at before the server starts
Listen ==
    /\ variant = "vapi"
    /\ clock < MaxEvents
    /\ clock' = clock + 1
    /\ ~listening
    /\ listening' = TRUE
    /\ UNCHANGED <<variant, crashed, relayVars, recVars, credentials, startCalls,
                   startResponse>>

\* GET /start-call: lines 19-30, up to `await axios.post`
StartCall ==
    /\ variant = "vapi"
    /\ clock < MaxEvents
    /\ clock' = clock + 1
    /\ listening
    /\ IF MissingCredentials
       THEN /\ startResponse' = "500 configuration error"
            /\ UNCHANGED startCalls
       ELSE /\ startCalls' = startCalls + 1
            /\ UNCHANGED startResponse
    /\ UNCHANGED <<variant, crashed, relayVars, recVars, credentials, listening>>

\* axios.post resolves: lines 63-64
VapiReturns ==
    /\ variant = "vapi"
    /\ clock < MaxEvents
    /\ clock' = clock + 1
    /\ startCalls > 0
    /\ startCalls' = startCalls - 1
    /\ startResponse' = "200 call initiated"
    /\ UNCHANGED <<variant, crashed, relayVars, recVars, credentials, listening>>

\* axios.post rejects: lines 66-69
VapiThrows ==
    /\ variant = "vapi"
    /\ clock < MaxEvents
    /\ clock' = clock + 1
    /\ startCalls > 0
    /\ startCalls' = startCalls - 1
    /\ startResponse' = "500 failed to start"
    /\ UNCHANGED <<variant, crashed, relayVars, recVars, credentials, listening>>

VapiNext == Listen \/ StartCall \/ VapiReturns \/ VapiThrows

\* the environment is fixed when the process starts; the other programs are
\* run with their environment complete
VapiInit ==
    /\ credentials \in (IF variant = "vapi" THEN BOOLEAN ELSE {TRUE})
    /\ listening = FALSE
    /\ startCalls = 0
    /\ startResponse = NoResponse

----------------------------------------------------------------------------

RelayInit ==
    /\ wsState = [s \in Sockets |-> "none"]
    /\ streamSid = [s \in Sockets |-> Undefined]
    /\ lastStart = [s \in Sockets |-> Undefined]
    /\ stopSeen = [s \in Sockets |-> FALSE]
    /\ dgState = [s \in Sockets |-> "none"]
    /\ handlersOn = [s \in Sockets |-> FALSE]
    /\ dgErrored = [s \in Sockets |-> FALSE]
    /\ dgAudio = [s \in Sockets |-> 0]
    /\ speakQueue = [s \in Sockets |-> 0]
    /\ finishCalls = [s \in Sockets |-> 0]
    /\ conversationHistory = [s \in Sockets |-> << >>]
    /\ fullAgentResponse = [s \in Sockets |-> EmptyStr]
    /\ cycles = [s \in Sockets |-> {}]
    /\ nAccepted = [s \in Sockets |-> 0]
    /\ lateAppend = [s \in Sockets |-> FALSE]
    /\ orphaned = [s \in Sockets |-> FALSE]
    /\ mixed = [s \in Sockets |-> FALSE]
    /\ interimSeen = [s \in Sockets |-> FALSE]
    /\ lastSent = [s \in Sockets |-> NoSend]

Init ==
    /\ variant \in {"relay", "vapi"} \cup Recorded
    /\ clock = 0
    /\ crashed = None
    /\ RelayInit
    /\ RecInit
    /\ VapiInit

Next == RelayNext \/ RecNext \/ VapiNext

Spec == Init /\ [][Next]_vars

----------------------------------------------------------------------------
(* Properties *)

\* system, then user and assistant in turn: (user, assistant) pairs with at
\* most one trailing user turn
Alternates(h) ==
    /\ Len(h) >= 1
    /\ h[1].role = "system"
    /\ \A i \in 2..Len(h) : h[i].role = IF i % 2 = 0 THEN "user" ELSE "assistant"

Connected(s) == wsState[s] # "none"

HasSent(s) == lastSent[s] # NoSend

\* C1: no outbound media frame is sent on a socket before a start frame has
\* been received on that socket.
C1_NoSendBeforeStart ==
    \A s \in Sockets : HasSent(s) => lastSent[s].lastStart # Undefined

\* C2: every outbound media frame carries the streamSid of the most recent
\* start frame received on the same socket, never an undefined identifier.
C2_SentCarriesLastStart ==
    \A s \in Sockets :
        HasSent(s) =>
            /\ lastSent[s].streamSid \in StreamSids
            /\ lastSent[s].streamSid = lastSent[s].lastStart

\* C3: in every reachable state the relay's conversationHistory is one system
\* turn followed by (user, assistant) pairs with at most one trailing user
\* turn: never two consecutive user turns or two consecutive assistant turns.
C3_RelayHistoryAlternates ==
    \A s \in Sockets : Connected(s) => Alternates(conversationHistory[s])

C5_AppendBeforeNextRequest ==
    \A s \in Sockets : ~lateAppend[s]

\* C6: when the generation provider throws, conversationHistory after the
\* failure equals conversationHistory before the segment was handled.
C6_FailureRestoresHistory ==
    \A s \in Sockets : ~orphaned[s]

\* C7: when the language-model call inside getAgentResponse throws, the stored
\* history of that callSid is the same as before the request: the request's
\* own user turn is not left behind in it.
C7_FailureLeavesStoredHistory ==
    \A c \in CallSids : ~recOrphaned[c]

\* C8: a final transcript that is empty or whitespace-only starts no generation
\* and leaves conversationHistory unchanged: no user turn of the history is
\* blank after trimming.
C8_BlankSegmentIgnored ==
    \A s \in Sockets :
        \A i \in 1..Len(conversationHistory[s]) :
            conversationHistory[s][i].role = "user" =>
                Truthy(Trim(conversationHistory[s][i].content))

\* C9: once the socket's close event has occurred, no send is attempted on
\* that socket.
C9_NoSendAfterClose ==
    \A s \in Sockets : lastSent[s].socket # "closed"

\* a /call-status for c that is not the first one for c
RepeatedTeardown(c) ==
    /\ statusCalls'[c] = statusCalls[c] + 1
    /\ statusCalls[c] >= 1

C10_Step ==
    /\ \A s \in Sockets : finishCalls'[s] <= 1
    /\ \A c \in CallSids :
          RepeatedTeardown(c) =>
              /\ conversationHistories'[c] = NoRef
              /\ \A d \in CallSids \ {c} :
                    conversationHistories'[d] = conversationHistories[d]
              /\ Stored(c) = Absent =>
                    UNCHANGED <<conversationHistories, heap>>

\* C10: tearing down twice releases each resource at most once: a repeated
\* /call-status for a callSid leaves the Map without an entry for it, as after
\* the first, touches no other entry and changes nothing when the entry is
\* already gone; deepgramLive.finish is called at most once per connection
\* whatever stop frames and close events occur.
C10_TeardownIdempotent == [][C10_Step]_vars

\* a socket that received a stop frame and then closed; a callSid torn down
\* twice while another call still has its history
C10_Witness ==
    \/ \E s \in Sockets :
          /\ stopSeen[s]
          /\ wsState[s] = "closed"
          /\ finishCalls[s] = 1
    \/ \E c \in CallSids :
          /\ statusCalls[c] >= 2
          /\ \E d \in CallSids \ {c} : Stored(d) # Absent

\* C11: once /call-status has been handled for a callSid, conversationHistories
\* holds no entry for it afterwards: a /process-recording handler that was in
\* flight for that callSid when /call-status arrived does not leave its
\* history array in the Map when it completes.
C11_NoEntryAfterTeardown ==
    \A r \in requests :
        (r.torn /\ r.history # NoRef) => conversationHistories[r.callSid] # r.history

\* the history of the call as the request found it, with the request's user turn
Issued(r) ==
    Append(IF r.before = Absent THEN FreshHistory(variant) ELSE r.before,
           Turn("user", r.text))

\* C12: the accepted transcript is appended as a user turn before the
\* language-model request is issued, and the request carries the whole
\* ordered history of the call, that user turn included.
C12_RequestCarriesHistory ==
    \A r \in requests :
        r.pc = "llm" =>
            /\ \E i \in 1..Len(heap[r.history]) :
                  heap[r.history][i] = Turn("user", r.text)
            /\ r.carried = Issued(r)

\* C13: every history, the relay's and every array of the recorded variants,
\* has a system turn as its first element from its creation on.
C13_SystemTurnFirst ==
    /\ \A s \in Sockets :
          Connected(s) =>
              /\ Len(conversationHistory[s]) >= 1
              /\ conversationHistory[s][1] = RelaySystemTurn
    /\ \A a \in DOMAIN heap :
          /\ Len(heap[a]) >= 1
          /\ heap[a][1].role = "system"

Live(s) == wsState[s] = "open"

\* everything the program holds for one socket
SocketState(s) ==
    <<wsState[s], streamSid[s], dgState[s], handlersOn[s], dgAudio[s], speakQueue[s],
      finishCalls[s], conversationHistory[s], fullAgentResponse[s], cycles[s],
      lastSent[s]>>

\* this step ran a handler or continuation of socket s
EventFor(s) == crashed' = s \/ SocketState(s)' # SocketState(s)

\* everything the program holds for one callSid
CallState(c) == <<{r \in requests : r.callSid = c}, conversationHistories[c], statusCalls[c]>>

C14_Step ==
    /\ \A s \in Sockets :
          EventFor(s) =>
              \A t \in Sockets \ {s} :
                  Live(t) =>
                      /\ conversationHistory'[t] = conversationHistory[t]
                      /\ streamSid'[t] = streamSid[t]
                      /\ crashed' = None
    /\ \A c \in CallSids :
          CallState(c)' # CallState(c) =>
              \A d \in CallSids \ {c} :
                  Stored(d) # Absent => Stored(d)' = Stored(d)

\* C14: an event for one session leaves every other live session's history
\* and stream identifier unchanged and the other session able to continue:
\* across sockets in the relay, across callSids in the recorded variants.
C14_SessionsIsolated == [][C14_Step]_vars

\* C15: a malformed inbound frame is dropped: the handler does not throw, the
\* process keeps running and the socket stays open for later frames.
C15_MalformedFrameDropped == crashed = None

C16_Step ==
    \A s \in Sockets :
        wsState[s] = "closed" =>
            /\ conversationHistory'[s] = conversationHistory[s]
            /\ nAccepted'[s] = nAccepted[s]

\* C16: after the socket has closed, no generation cycle is started and
\* conversationHistory is not changed, whatever the adapter still delivers.
C16_ClosedIsTerminal == [][C16_Step]_vars

\* C17: at most one generation cycle is in flight per connection.
C17_SingleFlight ==
    \A s \in Sockets : Cardinality(cycles[s]) <= 1

\* C18: the assistant turn pushed when a cycle ends is the concatenation, in
\* order, of the chunks that cycle received and forwarded to synthesis.
C18_ReplyIsOwnChunks ==
    \A s \in Sockets : ~mixed[s]

\* C19: a stop frame ends the stream as a close does: when its handler has
\* run, deepgramLive.finish() has been called.
C19_StopFinishes ==
    \A s \in Sockets : stopSeen[s] => finishCalls[s] >= 1

C20_Step ==
    \A s \in Sockets, transcript \in RelayTranscripts :
        OnTranscript(s, transcript, FALSE) =>
            UNCHANGED <<conversationHistory, fullAgentResponse, cycles, nAccepted>>

\* C20: a transcript event that is not final starts no generation cycle and
\* leaves conversationHistory as it was.
C20_InterimIgnored == [][C20_Step]_vars

\* a connection that was delivered a non-empty interim transcript and also a
\* final one that started a cycle
C20_Witness ==
    \E s \in Sockets : interimSeen[s] /\ nAccepted[s] >= 1

C21_Step ==
    \A s \in Sockets :
        dgErrored[s] =>
            /\ nAccepted'[s] = nAccepted[s]
            /\ dgAudio'[s] = dgAudio[s]

\* C21: after the adapter has reported an error, no transcript event starts a
\* generation cycle and no media frame is forwarded to the adapter any more.
C21_ErrorEndsTranscription == [][C21_Step]_vars

C22_Step ==
    \A s \in Sockets :
        (\E c \in cycles[s] : GenerationThrows(s, c)) =>
            speakQueue'[s] = speakQueue[s] + 1

\* C22: when a generation cycle fails, an apology utterance is handed to
\* synthesis: the catch block calls deepgramLive.speak once.
C22_FailureSpeaksApology == [][C22_Step]_vars

\* a well-formed media frame
MediaFrame == [event |-> "media"]

C24_Step ==
    \A s \in Sockets :
        OnMessage(s, MediaFrame) => dgAudio'[s] = dgAudio[s] + 1

\* C24: every media frame received while the socket is open is handed to
\* deepgramLive.send within the handler of its own arrival, hence in arrival
\* order, whether or not a generation cycle is in flight.
C24_MediaAlwaysForwarded == [][C24_Step]_vars

\* a second media frame was forwarded while a completion was in flight
C24_Witness ==
    \E s \in Sockets : dgAudio[s] = 2 /\ cycles[s] # {} /\ wsState[s] = "open"

\* C25: every generation cycle that has started ends: the process never
\* stops for good while an invocation of the transcript handler is still
\* in flight.
C25_CycleEnds ==
    crashed # None => \A s \in Sockets : cycles[s] = {}

\* C23: every response of /process-recording ends with a record instruction
\* pointing back to /process-recording, on every path of the handler.
C23_ResponseEndsWithRecord ==
    lastResponse.req # 0 =>
        lastResponse.verbs[Len(lastResponse.verbs)] = "record"

C26_Step ==
    \A r \in requests, userText \in UserTexts :
        TranscribeReturns(r, userText) =>
            IF Truthy(Trim(userText))
            THEN \E q \in requests' : q.id = r.id /\ q.pc = "llm"
            ELSE /\ \A q \in requests' : q.id # r.id
                 /\ UNCHANGED <<conversationHistories, heap>>
                 /\ lastResponse'.verbs = <<"say:repeat", "record">>

\* C26: /process-recording calls getAgentResponse if and only if the
\* transcript is non-empty after trimming; otherwise it makes no generation
\* call, leaves the stored histories as they are and asks the caller to repeat.
C26_GenerationIffNonBlank == [][C26_Step]_vars

IsPrefix(p, h) == Len(p) <= Len(h) /\ SubSeq(h, 1, Len(p)) = p

C27_Step ==
    /\ \A s \in Sockets :
          Connected(s) => IsPrefix(conversationHistory[s], conversationHistory'[s])
    /\ \A c \in CallSids :
          (Stored(c) # Absent /\ statusCalls'[c] = statusCalls[c]) =>
              IsPrefix(Stored(c), Stored(c)')

\* C27: history is append-only until teardown: every step leaves the turns
\* recorded so far as a prefix of the relay's conversationHistory and of the
\* history stored for each callSid.
C27_AppendOnly == [][C27_Step]_vars

\* C28: a process whose credentials are missing never serves a /start-call
\* request: no request is answered by it.
C28_MissingCredentialsFatal ==
    MissingCredentials => startResponse = NoResponse

\* the number of turns of one role in a history
RECURSIVE Count(_, _)
Count(role, h) ==
    IF h = << >> THEN 0
    ELSE (IF Head(h).role = role THEN 1 ELSE 0) + Count(role, Tail(h))

C29_Step ==
    \A r \in requests, agentText \in Generated(variant) :
        (LLMReturns(r, agentText) /\ ~r.torn) =>
            /\ Count("assistant", Stored(r.callSid)') =
                  Count("assistant", Stored(r.callSid)) + 1
            /\ Count("user", Stored(r.callSid)') >= Count("assistant", Stored(r.callSid)')

\* C29: no completed exchange is lost: each getAgentResponse call that
\* completes with no /call-status since it began leaves the stored history of
\* its callSid with one assistant turn more than before, each with its user
\* turn, so that n completed calls leave n exchanges.
C29_NoLostExchange == [][C29_Step]_vars

\* C30: a /process-recording request answered with the malfunction message
\* has added no assistant turn to the stored history.
C30_MalfunctionAddsNoReply ==
    (lastResponse.req # 0 /\ lastResponse.verbs[1] = "say:malfunction") =>
        ~lastResponse.appended

====
